---------------------------- MODULE Spec2Model ----------------------------
(***************************************************************************)
(* journald-2-syslog: a tailing log shipper (src/src/main.rs).             *)
(*                                                                         *)
(* The parent process (main_wrapper) starts the checkpoint thread          *)
(* (read_write_cursor_thread), waits for the loaded cursor, resolves the   *)
(* history position when that cursor is the default one, and then forks a  *)
(* worker in a loop.  The worker (the Ok(ForkResult::Child) branch) starts *)
(* the shipper thread (send_json_to_remote_host) and reads the journal,    *)
(* pushing (document, cursor) pairs on a bounded channel.  The shipper     *)
(* writes each document to the TCP stream and then sends the cursor on the *)
(* acknowledgment channel.                                                 *)
(*                                                                         *)
(* A record of the journal is modelled by its index 1..journalLen, and its *)
(* cursor by the same number; 0 is CursorRecord::default() (position "").  *)
(* The names and values of a record's fields appear only where the         *)
(* document is built (KeySpec, DocumentSpec), the history settings other   *)
(* than a few in HistorySpec.                                              *)
(*                                                                         *)
(* fork() copies the address space and only the calling thread.  Each      *)
(* channel therefore exists once per process image: ackChan.parent is the  *)
(* one the checkpoint thread receives from, ackChan.child is the copy the  *)
(* worker's shipper sends to.                                              *)
(***************************************************************************)
EXTENDS Integers, Sequences, FiniteSets, TLC

VARIABLES
    journalLen,   \* number of records the journal holds
    netUp,        \* the remote endpoint accepts connections and writes
    file,         \* content of the checkpoint file (last-cursor-location)
    file0,        \* history: content of the checkpoint file at process start
    histType,     \* config "history-type"
    histCount,    \* config "history-count"
    histAbsolute, \* config "history-absolute"
    histDuration, \* config "history-duration"
    ppc,          \* parent main thread: position in initialize_the_environment / main_wrapper
    initCursor,   \* parent: local_cursor_value (main.rs:534, 716)
    existsChan,   \* cursor_exists channel (main.rs:536)
    historyRan,   \* history: the history seek block (main.rs:581-704) was executed
    cpc,          \* checkpoint thread: position in read_write_cursor_thread
    ckLocal,      \* checkpoint thread: local_cursor_value
    ckWritten,    \* checkpoint thread: written_cursor_value
    elapsed,      \* checkpoint thread: pit.elapsed() > 1234 ms
    ackChan,      \* cursor_value channel (main.rs:537), one image per process
    wstate,       \* worker process: none | running | exited | signaled
    wpc,          \* worker main thread (producer): position in the child branch
    wLocal,       \* worker: local_cursor_value (main.rs:826)
    jpos,         \* worker: journal read pointer (index of the current entry)
    loopCount,    \* worker: completed iterations of the for loop (main.rs:764)
    queue,        \* json_value channel (main.rs:718), worker's image
    spc,          \* shipper thread: position in send_json_to_remote_host
    inHand,       \* shipper: the (value, cursor) it received, <<>> when none
    connOK,       \* shipper: its TcpStream is still usable
    seed,         \* history: cursor the current worker sought to (main.rs:759)
    workers,      \* history: 0, 1 or 2 (= two or more) workers forked so far
    prevDeath,    \* history: how the previous worker ended
    written,      \* history: records whose line was written Ok to the stream
    wire,         \* history: records written Ok by the current worker, in order
    enq,          \* history: records enqueued by the current worker, in order
    ioFault,      \* history: a file operation of a checkpoint write has failed
    attempts,     \* history: connection attempts in a row with no wait between
    conv          \* a journal field name or record and what the producer makes of it

vars == <<journalLen, netUp, file, file0, histType, histCount, histAbsolute,
          histDuration, conv, ppc, initCursor, existsChan,
          historyRan, cpc, ckLocal, ckWritten, elapsed, ackChan, wstate, wpc,
          wLocal, jpos, loopCount, queue, spc, inHand, connOK, seed, workers,
          prevDeath, written, wire, enq, ioFault, attempts>>

envVars    == <<journalLen, netUp>>
configVars == <<histType, histCount, histAbsolute, histDuration>>
parentVars == <<configVars, ppc, initCursor, existsChan, historyRan>>
ckptVars   == <<cpc, ckLocal, ckWritten, elapsed>>
workerVars == <<wstate, wpc, wLocal, jpos, loopCount, queue, spc, inHand, connOK>>
ghostVars  == <<seed, workers, prevDeath, written, wire, enq, ioFault, attempts>>

---------------------------------------------------------------------------
(* Bounds of the model *)

\* most records the journal ever holds
MaxRecords == 6
\* records the journal holds when the process starts: 1..MaxInitRecords
MaxInitRecords == 2
\* capacity of the json_value channel (300 in main.rs:719), scaled down
QueueCap == 2
\* capacity of the cursor_value channel (300 in main.rs:537), scaled down
AckCap == 1
\* iterations of the worker's read loop (999,999 in main.rs:764), scaled down
LoopLimit == 5
\* failed connection attempts in a row that are told apart
MaxAttempts == 1

---------------------------------------------------------------------------
(* Data *)

\* CursorRecord::default(): position is the empty string
NullCursor == 0

Cursors == 0 .. MaxRecords

\* values of "history-count" tried
HistCounts == {-2, 1}

\* a "history-absolute" string: whether it parses as DateTime<Utc>, and the
\* seconds since the epoch it then denotes
AbsoluteString(ok, secs) == [rfc3339 |-> ok, secs |-> secs]

\* a "history-duration" string: whether parse_duration accepts it, and the
\* seconds it then denotes
DurationString(ok, secs) == [valid |-> ok, secs |-> secs]

\* values of "history-absolute" tried: an unparsable string and an instant
AbsoluteTried == {AbsoluteString(FALSE, 0), AbsoluteString(TRUE, 2)}

\* the history settings: type, count, absolute, duration
Config(t, n, a, d) == [type |-> t, count |-> n, absolute |-> a, duration |-> d]

Configs ==
    {Config("count", n, AbsoluteString(FALSE, 0), DurationString(TRUE, 0)) :
        n \in HistCounts}
    \cup {Config("absolute", 0, a, DurationString(TRUE, 0)) : a \in AbsoluteTried}

\* the settings are read from the configuration
ConfigIs(c) ==
    /\ histType = c.type
    /\ histCount = c.count
    /\ histAbsolute = c.absolute
    /\ histDuration = c.duration

\* contents of the checkpoint file
FileAbsent  == [kind |-> "absent", position |-> NullCursor]
FileEmpty   == [kind |-> "empty", position |-> NullCursor]
FileGarbage == [kind |-> "garbage", position |-> NullCursor]
FileYaml(c) == [kind |-> "yaml", position |-> c]

\* serde_yaml::from_str::<CursorRecord>(s).unwrap_or_default()
YamlFromStr(s) == IF s.kind = "yaml" THEN s.position ELSE NullCursor

\* serde_yaml::to_writer(&cursor_file, &local_cursor_value) followed by "\n"
YamlToWriter(c) == FileYaml(c)

\* String::default(), the value of yaml_string when it is parsed (main.rs:181-182)
YamlStringAtParse(f) == FileEmpty

\* the cursor the checkpoint thread loads and sends at startup (main.rs:182, 192)
LoadedCursor(f) == YamlFromStr(YamlStringAtParse(f))

\* mpsc channel operations: send appends, recv takes the oldest element, a
\* sync_channel(cap) holds at most cap elements
\* variant: send places the element at the front
ChanPushFront(q, x) == <<x>> \o q

ChanPush(q, x) == Append(q, x)

\* variant: recv keeps blocking after the sender has gone
RecvOnlyOnValue(q, senderDropped) == q # <<>>

\* Receiver::recv returns when the channel holds a value (Ok) or when it is
\* empty and every sender has been dropped (Err)
RecvReturns(q, senderDropped) == q # <<>> \/ senderDropped

\* variant: recv hands out the newest element
ChanFirstNewest(q) == q[Len(q)]

ChanFirst(q) == Head(q)

ChanRest(q) == Tail(q)

\* variant: a channel without a bound (mpsc::channel)
ChanNeverFull(q, cap) == FALSE

ChanFull(q, cap) == Len(q) >= cap

\* the pair the producer sends for record r (main.rs:854-856)
Item(r) == [rec |-> r, cursor |-> r]

NoItem == <<>>

---------------------------------------------------------------------------
(* Journal positions: 1..m is the entry the journal is positioned at, 0    *)
(* means that no entry is current.  Journal::seek (systemd crate) calls    *)
(* sd_journal_seek_*, and then, no entry being current after a seek, steps *)
(* once with sd_journal_next to align on an entry and returns its cursor:  *)
(* after Head the first entry is current, after Tail the last one, after   *)
(* ClockRealtime the first entry at or after the instant, after Cursor the *)
(* entry the cursor denotes; Err when the step reaches no entry.           *)

NoEntry == 0

\* realtime timestamp of entry i in seconds; entries are in time order
TimeOf(i) == i

\* journal.seek(JournalSeek::Head)
SeekHead(m) == IF m >= 1 THEN 1 ELSE NoEntry

\* variant: Tail leaves the journal after the last entry, the first
\* previous_record() yields the last entry
SeekTailBeyond(m) == IF m >= 1 THEN m + 1 ELSE NoEntry

\* journal.seek(JournalSeek::Tail)
SeekTail(m) == IF m >= 1 THEN m ELSE NoEntry

\* journal.seek(JournalSeek::ClockRealtime { usec })
SeekRealtime(usec, m) ==
    LET later == {i \in 1 .. m : TimeOf(i) * 1000000 >= usec} IN
    IF later = {} THEN NoEntry
    ELSE CHOOSE i \in later : \A j \in later : i <= j

RECURSIVE NextUntilNone(_, _, _)
\* for _ in 0 .. k { if let Ok(None) = journal.next_record() { break; } }
NextUntilNone(pos, k, m) ==
    IF k = 0 THEN pos
    ELSE IF pos < m THEN NextUntilNone(pos + 1, k - 1, m)
    ELSE pos

RECURSIVE NextIgnoringNone(_, _, _)
\* (0 .. k).for_each(|_| { journal.next_record().unwrap(); })
NextIgnoringNone(pos, k, m) ==
    IF k = 0 THEN pos
    ELSE NextIgnoringNone(IF pos < m THEN pos + 1 ELSE pos, k - 1, m)

RECURSIVE PrevUntilNone(_, _)
\* for _ in count .. 0 { if let Ok(None) = journal.previous_record() { break; } }
PrevUntilNone(pos, k) ==
    IF k = 0 THEN pos
    ELSE IF pos > 1 THEN PrevUntilNone(pos - 1, k - 1)
    ELSE pos

\* loop { if let Ok(None) = journal.previous_record() { break; } }
PrevLoop(pos) == PrevUntilNone(pos, pos)

\* loop { if let Ok(None) = journal.next_record() { break; } }
NextLoop(pos, m) == NextUntilNone(pos, m, m)

\* main.rs:636-701: position reached by the "count" policy on a journal of m
\* records; NoEntry when the seek returned Err
HistoryCount(n, m) ==
    IF n > 0
    THEN IF SeekHead(m) = NoEntry THEN NoEntry
         ELSE NextIgnoringNone(NextUntilNone(PrevLoop(SeekHead(m)), n, m), n, m)
    ELSE IF SeekTail(m) = NoEntry THEN NoEntry
    ELSE IF n < 0 THEN PrevUntilNone(NextLoop(SeekTail(m), m), -n)
    ELSE NextLoop(SeekTail(m), m)

\* variant: an unparsable instant falls back to the epoch (unwrap_or_default)
AbsoluteUsecOrEpoch(a) == IF a.rfc3339 /\ a.secs >= 0 THEN a.secs * 1000000 ELSE 0

\* main.rs:618-625: parse::<DateTime<Utc>>()?.timestamp().to_string()
\* .parse::<u64>()? * 1_000_000; -1 stands for the Err either ? returns
AbsoluteUsec(a) == IF a.rfc3339 /\ a.secs >= 0 THEN a.secs * 1000000 ELSE -1

\* main.rs:616-635: the "absolute" policy
HistoryAbsolute(a, m) ==
    IF AbsoluteUsec(a) < 0 THEN NoEntry ELSE SeekRealtime(AbsoluteUsec(a), m)

\* main.rs:586-614: the "duration" policy at wall-clock second now
HistoryDuration(d, now, m) ==
    IF ~d.valid THEN NoEntry
    ELSE IF d.secs # 0
         THEN IF now - d.secs < 0 THEN NoEntry
              ELSE SeekRealtime((now - d.secs) * 1000000, m)
         ELSE SeekTail(m)

\* main.rs:582-703: match on "history-type"; any other type panics
HistorySeek(type, n, a, d, now, m) ==
    CASE type = "duration" -> HistoryDuration(d, now, m)
      [] type = "absolute" -> HistoryAbsolute(a, m)
      [] type = "count" -> HistoryCount(n, m)
      [] OTHER -> NoEntry

\* Utc::now() in seconds when the history block runs: not before the newest entry
Nows(m) == {TimeOf(m), TimeOf(m) + 1}

\* journal.cursor() is Ok only when the journal is positioned at an entry
CursorOk(pos, m) == 1 <= pos /\ pos <= m

\* variant: a restarted worker starts at the newest record
SeedCursorAtTail == IF workers = 0 THEN initCursor ELSE journalLen

\* the cursor the child seeks to: the parent's local_cursor_value at fork time
SeedCursor == initCursor

\* variant: the shipper acknowledges the cursor the producer read last
AckedCursorLatestRead(item) == wLocal

\* the cursor the shipper sends after a successful write (main.rs:149, 155)
AckedCursor(item) == item.cursor

\* variant: only a normal exit leaves wait_loop
AfterWaitOnlyExited(status) == IF status = "exited" THEN "fork" ELSE "wait"

\* variant: an error of waitpid ends the supervisor
AfterWaitErrStops(status) ==
    IF status = "exited" THEN "fork"
    ELSE IF status = "error" THEN "stopped" ELSE "wait"

\* variant: after a normal exit the supervisor sets the environment up again
AfterWaitReinit(status) ==
    IF status = "exited" THEN "history"
    ELSE IF status = "error" THEN "fork" ELSE "wait"

\* main.rs:909-934: where the parent goes after waitpid returned: Exited and
\* Err leave wait_loop (and fork again), any other status waits again
AfterWait(status) == IF status \in {"exited", "error"} THEN "fork" ELSE "wait"

\* variant: waitpid may fail while the worker lives
WaitFailsAnytime(ws) == TRUE

\* main.rs:728, 909: waitpid(-1, WaitPidFlag::empty()) blocks while a child
\* exists; no signal handler is installed, so the one error it can return is
\* ECHILD, when the process has no child left to wait for
WaitFails(ws) == ws = "none"

\* journal.seek(JournalSeek::Cursor{..}).unwrap_or_default(): the entry the
\* cursor denotes becomes current, so the next next_record() yields the entry
\* after it; an unusable cursor (Err, ignored) leaves no entry current
SeekCursor(c) == IF c = NullCursor THEN NoEntry ELSE c

\* state of the worker's threads when no worker process exists
NoWorker ==
    /\ wpc' = "none"
    /\ wLocal' = NullCursor
    /\ jpos' = 0
    /\ loopCount' = 0
    /\ queue' = <<>>
    /\ spc' = "none"
    /\ inHand' = NoItem
    /\ connOK' = FALSE
    /\ attempts' = 0

---------------------------------------------------------------------------
(* Initial state: initialize_the_environment has spawned the checkpoint    *)
(* thread (main.rs:566) and is about to block in recv (main.rs:575).       *)

Init ==
    /\ journalLen \in 1 .. MaxInitRecords
    /\ netUp = TRUE
    /\ file \in {FileAbsent, FileEmpty, FileGarbage}
                \cup {FileYaml(c) : c \in 1 .. journalLen}
    /\ file0 = file
    /\ \E c \in Configs : ConfigIs(c)
    /\ conv = <<>>
    /\ ppc = "load"
    /\ initCursor = NullCursor
    /\ existsChan = <<>>
    /\ historyRan = FALSE
    /\ cpc = "start"
    /\ ckLocal = NullCursor
    /\ ckWritten = NullCursor
    /\ elapsed = FALSE
    /\ ackChan = [p \in {"parent", "child"} |-> <<>>]
    /\ wstate = "none"
    /\ wpc = "none"
    /\ wLocal = NullCursor
    /\ jpos = 0
    /\ loopCount = 0
    /\ queue = <<>>
    /\ spc = "none"
    /\ inHand = NoItem
    /\ connOK = FALSE
    /\ seed = NullCursor
    /\ workers = 0
    /\ prevDeath = "none"
    /\ written = {}
    /\ wire = <<>>
    /\ enq = <<>>
    /\ ioFault = FALSE
    /\ attempts = 0

---------------------------------------------------------------------------
(* Environment *)

\* journald appends a record
JournalAppend ==
    /\ journalLen < MaxRecords
    /\ journalLen' = journalLen + 1
    /\ UNCHANGED <<netUp, file, file0, conv, ackChan>>
    /\ UNCHANGED <<parentVars, ckptVars, workerVars, ghostVars>>

\* the remote endpoint goes away: established streams break
NetDown ==
    /\ netUp
    /\ netUp' = FALSE
    /\ connOK' = FALSE
    /\ UNCHANGED <<journalLen, file, file0, conv, ackChan>>
    /\ UNCHANGED <<parentVars, ckptVars, ghostVars>>
    /\ UNCHANGED <<wstate, wpc, wLocal, jpos, loopCount, queue, spc, inHand>>

\* the remote endpoint is reachable again
NetUp ==
    /\ ~netUp
    /\ netUp' = TRUE
    /\ UNCHANGED <<journalLen, file, file0, conv, ackChan>>
    /\ UNCHANGED <<parentVars, ckptVars, workerVars, ghostVars>>

\* more than 1234 ms have passed since pit was set
Tick ==
    /\ cpc = "loop"
    /\ ~elapsed
    /\ elapsed' = TRUE
    /\ UNCHANGED <<envVars, file, file0, conv, ackChan, cpc, ckLocal, ckWritten>>
    /\ UNCHANGED <<parentVars, workerVars, ghostVars>>

---------------------------------------------------------------------------
(* Checkpoint thread: read_write_cursor_thread *)

\* main.rs:180-193: open (creating) the file, read it, send the loaded cursor;
\* a failing open or read panics the thread, which drops cursor_exists_sender
CkptStart ==
    /\ cpc = "start"
    /\ \E ok \in BOOLEAN :
          IF ok
          THEN /\ file' = IF file.kind = "absent" THEN FileEmpty ELSE file
               /\ existsChan' = ChanPush(existsChan, LoadedCursor(file))
               /\ ckLocal' = LoadedCursor(file)
               /\ cpc' = "loop"
          ELSE /\ cpc' = "dead"
               /\ UNCHANGED <<file, existsChan, ckLocal>>
    /\ UNCHANGED <<envVars, file0, conv, ackChan, ckWritten, elapsed>>
    /\ UNCHANGED <<configVars, ppc, initCursor, historyRan>>
    /\ UNCHANGED <<workerVars, ghostVars>>

\* outcomes of the file operations of main.rs:204-216
WriteOutcomes == {"written", "untouched", "truncated", "open_failed"}

\* the file after the write of cursor c with outcome o: open panics on failure,
\* set_len, to_writer and write ignore their errors
FileAfterWrite(f, c, o) ==
    CASE o = "written" -> YamlToWriter(c)
      [] o = "truncated" -> FileEmpty
      [] OTHER -> f

\* variant: no debounce, a changed cursor is written at once
ShouldWriteAlways(el, wr, lc) == wr # lc

\* the condition of main.rs:201-202
ShouldWrite(el, wr, lc) == el /\ wr # lc

\* main.rs:197-220: one iteration of the loop; recv_timeout returns a cursor
\* when the parent's image of the channel holds one, else it times out
CkptLoop ==
    /\ cpc = "loop"
    /\ IF ackChan["parent"] # <<>>
       THEN LET c == ChanFirst(ackChan["parent"]) IN
            /\ ackChan' = [ackChan EXCEPT !["parent"] = ChanRest(@)]
            /\ ckLocal' = c
            /\ IF ShouldWrite(elapsed, ckWritten, c)
               THEN \E o \in WriteOutcomes :
                      /\ ioFault' = (ioFault \/ o # "written")
                      /\ IF o = "open_failed"
                         THEN /\ cpc' = "dead"
                              /\ UNCHANGED <<file, elapsed, ckWritten>>
                         ELSE /\ file' = FileAfterWrite(file, c, o)
                              /\ elapsed' = FALSE
                              /\ ckWritten' = c
                              /\ cpc' = cpc
               ELSE UNCHANGED <<file, elapsed, ckWritten, cpc, ioFault>>
       ELSE UNCHANGED <<ackChan, ckLocal, file, elapsed, ckWritten, cpc, ioFault>>
    /\ UNCHANGED <<envVars, file0, conv>>
    /\ UNCHANGED <<parentVars, workerVars>>
    /\ UNCHANGED <<seed, workers, prevDeath, written, wire, enq, attempts>>

---------------------------------------------------------------------------
(* Parent main thread: initialize_the_environment and main_wrapper *)

\* main.rs:575-580: recv() yields the loaded cursor, or Err once the checkpoint
\* thread has panicked; the history block is entered on the default cursor
ParentRecvCursor ==
    /\ ppc = "load"
    /\ RecvReturns(existsChan, cpc = "dead")
    /\ LET c == IF existsChan # <<>> THEN ChanFirst(existsChan) ELSE NullCursor IN
       /\ initCursor' = c
       /\ ppc' = IF c = NullCursor THEN "history" ELSE "fork"
    /\ existsChan' = IF existsChan # <<>> THEN ChanRest(existsChan) ELSE existsChan
    /\ UNCHANGED <<envVars, file, file0, conv, ackChan, configVars, historyRan>>
    /\ UNCHANGED <<ckptVars, workerVars, ghostVars>>

\* main.rs:581-704: history seek and journal.cursor()?; an Err (or the panic
\* on an unknown type) ends initialize_the_environment, main_wrapper and the
\* process
ParentHistory ==
    /\ ppc = "history"
    /\ historyRan' = TRUE
    /\ \E now \in Nows(journalLen) :
       LET pos == HistorySeek(histType, histCount, histAbsolute, histDuration,
                              now, journalLen) IN
       IF CursorOk(pos, journalLen)
       THEN /\ initCursor' = pos
            /\ ppc' = "fork"
            /\ cpc' = cpc
       ELSE /\ initCursor' = initCursor
            /\ ppc' = "failed"
            /\ cpc' = "dead"
    /\ UNCHANGED <<envVars, file, file0, conv, ackChan, configVars, existsChan>>
    /\ UNCHANGED <<ckLocal, ckWritten, elapsed>>
    /\ UNCHANGED <<workerVars, ghostVars>>

\* main.rs:730-755: fork() returns Ok; the child is a copy of the parent's
\* memory with the forking thread only, and spawns the shipper
ForkOk ==
    /\ ppc = "fork"
    /\ ppc' = "wait"
    /\ wstate' = "running"
    /\ wpc' = "open"
    /\ wLocal' = SeedCursor
    /\ jpos' = 0
    /\ loopCount' = 0
    /\ queue' = <<>>
    /\ spc' = "connect"
    /\ inHand' = NoItem
    /\ connOK' = FALSE
    /\ ackChan' = [ackChan EXCEPT !["child"] = ackChan["parent"]]
    /\ seed' = SeedCursor
    /\ workers' = IF workers = 0 THEN 1 ELSE 2
    /\ wire' = <<>>
    /\ enq' = <<>>
    /\ UNCHANGED <<envVars, file, file0, conv, prevDeath, written, ioFault, attempts>>
    /\ UNCHANGED <<configVars, initCursor, existsChan, historyRan>>
    /\ UNCHANGED ckptVars

\* main.rs:893-900: fork() returns Err; the loop is left and the process ends
ForkErr ==
    /\ ppc = "fork"
    /\ ppc' = "stopped"
    /\ cpc' = "dead"
    /\ UNCHANGED <<envVars, file, file0, conv, ackChan>>
    /\ UNCHANGED <<configVars, initCursor, existsChan, historyRan>>
    /\ UNCHANGED <<ckLocal, ckWritten, elapsed>>
    /\ UNCHANGED <<workerVars, ghostVars>>

\* main.rs:909-918: waitpid returns Exited: leave wait_loop, fork again
WaitExited ==
    /\ ppc = "wait"
    /\ wstate = "exited"
    /\ wstate' = "none"
    /\ ppc' = AfterWait("exited")
    /\ UNCHANGED <<envVars, file, file0, conv, ackChan>>
    /\ UNCHANGED <<configVars, initCursor, existsChan, historyRan>>
    /\ UNCHANGED <<wpc, wLocal, jpos, loopCount, queue, spc, inHand, connOK>>
    /\ UNCHANGED <<ckptVars, ghostVars>>

\* main.rs:919-925: waitpid returns another status (Signaled): stay in wait_loop
WaitOtherStatus ==
    /\ ppc = "wait"
    /\ wstate = "signaled"
    /\ wstate' = "none"
    /\ ppc' = AfterWait("signaled")
    /\ UNCHANGED <<envVars, file, file0, conv, ackChan>>
    /\ UNCHANGED <<configVars, initCursor, existsChan, historyRan>>
    /\ UNCHANGED <<ckptVars, ghostVars>>
    /\ UNCHANGED <<wpc, wLocal, jpos, loopCount, queue, spc, inHand, connOK>>

\* main.rs:926-933: waitpid returns Err (ECHILD: no child left): leave wait_loop
WaitErr ==
    /\ ppc = "wait"
    /\ WaitFails(wstate)
    /\ ppc' = AfterWait("error")
    /\ UNCHANGED <<envVars, file, file0, conv, ackChan>>
    /\ UNCHANGED <<configVars, initCursor, existsChan, historyRan>>
    /\ UNCHANGED <<workerVars, ckptVars, ghostVars>>

---------------------------------------------------------------------------
(* Worker main thread (producer): the Ok(ForkResult::Child) branch *)

\* main.rs:757-762: open the journal and seek to local_cursor_value
ProdOpen ==
    /\ wstate = "running"
    /\ wpc = "open"
    /\ jpos' = SeekCursor(wLocal)
    /\ wpc' = "next"
    /\ UNCHANGED <<envVars, file, file0, conv, ackChan>>
    /\ UNCHANGED <<wstate, wLocal, loopCount, queue, spc, inHand, connOK>>
    /\ UNCHANGED <<parentVars, ckptVars, ghostVars>>

\* main.rs:809-828: next_record(), or await_next_record(None) until a record
\* exists; the record's cursor becomes local_cursor_value
ProdNext ==
    /\ wstate = "running"
    /\ wpc = "next"
    /\ loopCount < LoopLimit
    /\ jpos < journalLen
    /\ jpos' = jpos + 1
    /\ wLocal' = jpos + 1
    /\ wpc' = "send"
    /\ UNCHANGED <<envVars, file, file0, conv, ackChan>>
    /\ UNCHANGED <<wstate, loopCount, queue, spc, inHand, connOK>>
    /\ UNCHANGED <<parentVars, ckptVars, ghostVars>>

\* main.rs:855-857: json_value_sender.send(..).unwrap_or_default(): blocks while
\* the channel is full; Err at once (ignored) when the receiver has been dropped
ProdSend ==
    /\ wstate = "running"
    /\ wpc = "send"
    /\ spc = "dead" \/ ~ChanFull(queue, QueueCap)
    /\ IF spc = "dead"
       THEN UNCHANGED <<queue, enq>>
       ELSE /\ queue' = ChanPush(queue, Item(jpos))
            /\ enq' = Append(enq, jpos)
    /\ loopCount' = loopCount + 1
    /\ wpc' = "next"
    /\ UNCHANGED <<envVars, file, file0, conv, ackChan>>
    /\ UNCHANGED <<wstate, wLocal, jpos, spc, inHand, connOK>>
    /\ UNCHANGED <<parentVars, ckptVars>>
    /\ UNCHANGED <<seed, workers, prevDeath, written, wire, ioFault, attempts>>

\* main.rs:764, 877-882: the for loop ends, the child leaves main_loop and
\* main returns: exit code 0
WorkerExit ==
    /\ wstate = "running"
    /\ wpc = "next"
    /\ loopCount = LoopLimit
    /\ wstate' = "exited"
    /\ prevDeath' = "exit"
    /\ NoWorker
    /\ UNCHANGED <<envVars, file, file0, conv, ackChan>>
    /\ UNCHANGED <<parentVars, ckptVars>>
    /\ UNCHANGED <<seed, workers, written, wire, enq, ioFault>>

\* main.rs:757, 809, 817: Journal::open or next_record returns Err, `?` returns
\* it from main_wrapper and main panics on unwrap: exit code 101
WorkerFault ==
    /\ wstate = "running"
    /\ wpc \in {"open", "next"}
    /\ wstate' = "exited"
    /\ prevDeath' = "fault"
    /\ NoWorker
    /\ UNCHANGED <<envVars, file, file0, conv, ackChan>>
    /\ UNCHANGED <<parentVars, ckptVars>>
    /\ UNCHANGED <<seed, workers, written, wire, enq, ioFault>>

\* the worker process is killed by a signal, at any point
WorkerKilled ==
    /\ wstate = "running"
    /\ wstate' = "signaled"
    /\ prevDeath' = IF spc = "ack" THEN "killed_before_ack" ELSE "killed"
    /\ NoWorker
    /\ UNCHANGED <<envVars, file, file0, conv, ackChan>>
    /\ UNCHANGED <<parentVars, ckptVars>>
    /\ UNCHANGED <<seed, workers, written, wire, enq, ioFault>>

---------------------------------------------------------------------------
(* Shipper thread: send_json_to_remote_host *)

\* main.rs:134-142: TcpStream::connect; on Err the outer loop starts over at
\* once, no sleep stands between two attempts
ShipConnect ==
    /\ wstate = "running"
    /\ spc = "connect"
    /\ IF netUp
       THEN /\ spc' = "recv"
            /\ connOK' = TRUE
            /\ attempts' = 0
       ELSE /\ attempts' = IF attempts < MaxAttempts THEN attempts + 1 ELSE attempts
            /\ UNCHANGED <<spc, connOK>>
    /\ UNCHANGED <<envVars, file, file0, conv, ackChan>>
    /\ UNCHANGED <<wstate, wpc, wLocal, jpos, loopCount, queue, inHand>>
    /\ UNCHANGED <<parentVars, ckptVars>>
    /\ UNCHANGED <<seed, workers, prevDeath, written, wire, enq, ioFault>>

\* main.rs:146-149, 163-167: recv_timeout yields the oldest pair, or times out,
\* sleeps and tries again
ShipRecv ==
    /\ wstate = "running"
    /\ spc = "recv"
    /\ IF queue # <<>>
       THEN /\ inHand' = ChanFirst(queue)
            /\ queue' = ChanRest(queue)
            /\ spc' = "write"
       ELSE UNCHANGED <<inHand, queue, spc>>
    /\ UNCHANGED <<envVars, file, file0, conv, ackChan>>
    /\ UNCHANGED <<wstate, wpc, wLocal, jpos, loopCount, connOK>>
    /\ UNCHANGED <<parentVars, ckptVars, ghostVars>>

\* main.rs:151-161: write the line; on Err sleep and panic, which ends the
\* thread and drops the receiver with everything the channel holds
ShipWrite ==
    /\ wstate = "running"
    /\ spc = "write"
    /\ IF connOK
       THEN /\ wire' = Append(wire, inHand.rec)
            /\ written' = written \cup {inHand.rec}
            /\ spc' = "ack"
            /\ UNCHANGED <<queue, inHand>>
       ELSE /\ spc' = "dead"
            /\ queue' = <<>>
            /\ inHand' = NoItem
            /\ UNCHANGED <<wire, written>>
    /\ UNCHANGED <<envVars, file, file0, conv, ackChan>>
    /\ UNCHANGED <<wstate, wpc, wLocal, jpos, loopCount, connOK>>
    /\ UNCHANGED <<parentVars, ckptVars>>
    /\ UNCHANGED <<seed, workers, prevDeath, enq, ioFault, attempts>>

\* the receiver of process p's image of the cursor_value channel was dropped:
\* it lives in the checkpoint thread, which exists in the parent only
AckReceiverDropped(p) == p = "parent" /\ cpc = "dead"

\* main.rs:155: cursor_sender.send(cursor).unwrap_or_default() in process p:
\* blocks while the channel is full, Err (ignored) when the receiver is dropped
ShipAck(p) ==
    /\ wstate = "running"
    /\ spc = "ack"
    /\ AckReceiverDropped(p) \/ ~ChanFull(ackChan[p], AckCap)
    /\ ackChan' = IF AckReceiverDropped(p)
                  THEN ackChan
                  ELSE [ackChan EXCEPT ![p] = ChanPush(@, AckedCursor(inHand))]
    /\ inHand' = NoItem
    /\ spc' = "recv"
    /\ UNCHANGED <<envVars, file, file0, conv>>
    /\ UNCHANGED <<wstate, wpc, wLocal, jpos, loopCount, queue, connOK>>
    /\ UNCHANGED <<parentVars, ckptVars, ghostVars>>

---------------------------------------------------------------------------
(* The program: the worker is a forked process *)

Next ==
    \/ JournalAppend
    \/ NetDown
    \/ NetUp
    \/ Tick
    \/ CkptStart
    \/ CkptLoop
    \/ ParentRecvCursor
    \/ ParentHistory
    \/ ForkOk
    \/ ForkErr
    \/ WaitExited
    \/ WaitOtherStatus
    \/ WaitErr
    \/ ProdOpen
    \/ ProdNext
    \/ ProdSend
    \/ WorkerExit
    \/ WorkerFault
    \/ WorkerKilled
    \/ ShipConnect
    \/ ShipRecv
    \/ ShipWrite
    \/ ShipAck("child")

Spec == Init /\ [][Next]_vars

\* what the scheduler guarantees: a thread that can take a step takes one, and
\* time passes; nothing is assumed of the journal, the network, signals or the
\* outcome of fork
Fairness ==
    /\ WF_vars(Tick)
    /\ WF_vars(CkptStart)
    /\ WF_vars(CkptLoop)
    /\ WF_vars(ParentRecvCursor)
    /\ WF_vars(ParentHistory)
    /\ WF_vars(ForkOk)
    /\ WF_vars(WaitExited)
    /\ WF_vars(WaitOtherStatus)
    /\ WF_vars(WaitErr)
    /\ WF_vars(ProdOpen)
    /\ WF_vars(ProdNext)
    /\ WF_vars(ProdSend)
    /\ WF_vars(WorkerExit)
    /\ WF_vars(ShipConnect)
    /\ WF_vars(ShipRecv)
    /\ WF_vars(ShipWrite)
    /\ WF_vars(ShipAck("child"))

FairSpec == Init /\ [][Next]_vars /\ Fairness

\* the program on its first start: no checkpoint file exists yet, one record
\* is in the journal and the history setting is a count (main.rs:583-640)
FirstStartInit ==
    /\ Init
    /\ journalLen = 1
    /\ file = FileAbsent
    /\ histType = "count"

FirstStartSpec == FirstStartInit /\ [][Next]_vars /\ Fairness

---------------------------------------------------------------------------
(* The pipeline by itself: the producer (main.rs:757-876), the shipper     *)
(* (main.rs:128-172) and the checkpoint thread (main.rs:174-222) as tasks  *)
(* of one process, connected by the channels of main.rs:537 and 718, with  *)
(* no fork between the shipper and the checkpoint thread.                  *)

PipelineInit ==
    /\ journalLen \in 1 .. MaxInitRecords
    /\ netUp = TRUE
    /\ file \in {FileEmpty} \cup {FileYaml(c) : c \in 1 .. journalLen}
    /\ file0 = file
    /\ \E c \in {x \in Configs : x.type = "count" /\ x.count = 1} : ConfigIs(c)
    /\ conv = <<>>
    /\ ppc = "pipeline"
    /\ initCursor \in 1 .. journalLen
    /\ existsChan = <<>>
    /\ historyRan = FALSE
    /\ cpc = "loop"
    /\ ckLocal = NullCursor
    /\ ckWritten = NullCursor
    /\ elapsed = FALSE
    /\ ackChan = [p \in {"parent", "child"} |-> <<>>]
    /\ wstate = "running"
    /\ wpc = "open"
    /\ wLocal = initCursor
    /\ jpos = 0
    /\ loopCount = 0
    /\ queue = <<>>
    /\ spc = "connect"
    /\ inHand = NoItem
    /\ connOK = FALSE
    /\ seed = initCursor
    /\ workers = 1
    /\ prevDeath = "none"
    /\ written = {}
    /\ wire = <<>>
    /\ enq = <<>>
    /\ ioFault = FALSE
    /\ attempts = 0

\* main.rs:877-882 in a single process: main returns and every thread ends
PipelineExit ==
    /\ wstate = "running"
    /\ wpc = "next"
    /\ loopCount = LoopLimit
    /\ wstate' = "exited"
    /\ prevDeath' = "exit"
    /\ cpc' = "dead"
    /\ NoWorker
    /\ UNCHANGED <<envVars, file, file0, conv, ackChan>>
    /\ UNCHANGED <<parentVars, ckLocal, ckWritten, elapsed>>
    /\ UNCHANGED <<seed, workers, written, wire, enq, ioFault>>

\* a termination signal (SIGTERM, SIGINT) reaches the process: no handler is
\* installed, so the default action ends every thread where it stands
PipelineShutdown ==
    /\ wstate = "running"
    /\ wstate' = "signaled"
    /\ prevDeath' = "shutdown"
    /\ cpc' = "dead"
    /\ NoWorker
    /\ UNCHANGED <<envVars, file, file0, conv, ackChan>>
    /\ UNCHANGED <<parentVars, ckLocal, ckWritten, elapsed>>
    /\ UNCHANGED <<seed, workers, written, wire, enq, ioFault>>

PipelineNext ==
    \/ JournalAppend
    \/ NetDown
    \/ NetUp
    \/ Tick
    \/ CkptLoop
    \/ ProdOpen
    \/ ProdNext
    \/ ProdSend
    \/ PipelineExit
    \/ PipelineShutdown
    \/ ShipConnect
    \/ ShipRecv
    \/ ShipWrite
    \/ ShipAck("parent")

PipelineSpec == PipelineInit /\ [][PipelineNext]_vars

PipelineFairness ==
    /\ WF_vars(Tick)
    /\ WF_vars(CkptLoop)
    /\ WF_vars(ProdOpen)
    /\ WF_vars(ProdNext)
    /\ WF_vars(ProdSend)
    /\ WF_vars(PipelineExit)
    /\ WF_vars(ShipConnect)
    /\ WF_vars(ShipRecv)
    /\ WF_vars(ShipWrite)
    /\ WF_vars(ShipAck("parent"))

PipelineFairSpec == PipelineInit /\ [][PipelineNext]_vars /\ PipelineFairness

---------------------------------------------------------------------------
(* The producer's conversion of a record (main.rs:826-857).                *)
(*                                                                         *)
(* A field name or document key is a sequence of pieces: the underscore,   *)
(* the dot, or a run of letters.  The replacements of main.rs:845-850 look *)
(* for the substrings "_", "source" and "message.", which are pieces or    *)
(* pairs of pieces here.                                                   *)

\* longest field name tried, in pieces
MaxNameLen == 3

\* pieces of the field names tried
NamePieces == {"_", ".", "SOURCE", "MESSAGE", "PID", "message", "foo"}

FieldNames == UNION {[1 .. n -> NamePieces] : n \in 1 .. MaxNameLen}

\* str::to_lowercase on a piece
LowerOf(p) ==
    CASE p = "SOURCE" -> "source"
      [] p = "MESSAGE" -> "message"
      [] p = "PID" -> "pid"
      [] p = "JOURNALD" -> "journald"
      [] p = "CURSOR" -> "cursor"
      [] p = "TIMESTAMP" -> "timestamp"
      [] p = "REALTIME" -> "realtime"
      [] OTHER -> p

\* .replace("_", ".")
ReplaceUnderscore(k) == [i \in 1 .. Len(k) |-> IF k[i] = "_" THEN "." ELSE k[i]]

\* .to_lowercase()
ToLowercase(k) == [i \in 1 .. Len(k) |-> LowerOf(k[i])]

RECURSIVE TrimLeftMatchesDot(_)
\* .trim_left_matches('.')
TrimLeftMatchesDot(k) ==
    IF k # <<>> /\ Head(k) = "." THEN TrimLeftMatchesDot(Tail(k)) ELSE k

\* variant: only a key that is exactly "source" is renamed
ReplaceSourceExact(k) == IF k = <<"source">> THEN <<"originator">> ELSE k

\* .replace("source", "originator"): every occurrence
ReplaceSource(k) ==
    [i \in 1 .. Len(k) |-> IF k[i] = "source" THEN "originator" ELSE k[i]]

RECURSIVE ReplaceMessageDot(_)
\* .replace("message.", "originator."): every occurrence, left to right
ReplaceMessageDot(k) ==
    IF k = <<>> THEN <<>>
    ELSE IF Len(k) >= 2 /\ k[1] = "message" /\ k[2] = "."
         THEN <<"originator", ".">> \o ReplaceMessageDot(Tail(Tail(k)))
         ELSE <<Head(k)>> \o ReplaceMessageDot(Tail(k))

\* main.rs:845-850: the key a record field is inserted under
RecordKey(name) ==
    ReplaceMessageDot(ReplaceSource(TrimLeftMatchesDot(ToLowercase(
        ReplaceUnderscore(name)))))

\* the keys of main.rs:838-842
AtTimestampKey == <<"@timestamp">>

JournaldTimestampKey == <<"journald", ".", "timestamp">>

\* variant: the cursor is inserted under "source.cursor"
SourceCursorKey == <<"source", ".", "cursor">>

JournaldCursorKey == <<"journald", ".", "cursor">>

\* field names of the records tried, in the order a BTreeMap iterates them
\* (byte order: capital letters sort before the underscore)
FieldsTried ==
    << <<"JOURNALD", "_", "CURSOR">>,
       <<"JOURNALD", "_", "TIMESTAMP">>,
       <<"MESSAGE">>,
       <<"_", "PID">>,
       <<"_", "SOURCE", "_", "REALTIME", "_", "TIMESTAMP">> >>

\* most fields a record tried holds
MaxFields == 2

FieldValues == {"a", "b"}

TimestampStrings == {"2018-11-01T10:00:00Z", "2018-11-01T10:00:01Z"}

CursorStrings == {"s=1;i=1", "s=1;i=2"}

\* the records tried: field values by index in FieldsTried
RecordsTried ==
    UNION {[d -> FieldValues] :
             d \in {x \in SUBSET (1 .. Len(FieldsTried)) : Cardinality(x) <= MaxFields}}

\* JsonMap::insert: a later insert under the same key replaces the value
JsonInsert(map, k, v) ==
    [x \in DOMAIN map \cup {k} |-> IF x = k THEN v ELSE map[x]]

RECURSIVE InsertFields(_, _, _)
\* main.rs:843-853: record.into_iter().for_each(..), from the i-th name on
InsertFields(map, rec, i) ==
    IF i > Len(FieldsTried) THEN map
    ELSE InsertFields(IF i \in DOMAIN rec
                      THEN JsonInsert(map, RecordKey(FieldsTried[i]), rec[i])
                      ELSE map,
                      rec, i + 1)

\* main.rs:837-853: the document built for a record with timestamp string t
\* and cursor c
JsonMap(t, c, rec) ==
    InsertFields(
        JsonInsert(JsonInsert(JsonInsert(<<>>, AtTimestampKey, t),
                              JournaldTimestampKey, t),
                   JournaldCursorKey, c),
        rec, 1)

\* every variable of the program proper
programVars == <<envVars, file, file0, ackChan, parentVars, ckptVars,
                 workerVars, ghostVars>>

\* the producer of a running worker holds a record; nothing else moves
ProducerOnly ==
    /\ journalLen = 1
    /\ netUp = TRUE
    /\ file = FileEmpty
    /\ file0 = file
    /\ \E c \in {x \in Configs : x.type = "count" /\ x.count = 1} : ConfigIs(c)
    /\ ppc = "wait"
    /\ initCursor = NullCursor
    /\ existsChan = <<>>
    /\ historyRan = FALSE
    /\ cpc = "loop"
    /\ ckLocal = NullCursor
    /\ ckWritten = NullCursor
    /\ elapsed = FALSE
    /\ ackChan = [p \in {"parent", "child"} |-> <<>>]
    /\ wstate = "running"
    /\ wpc = "send"
    /\ wLocal = 1
    /\ jpos = 1
    /\ loopCount = 0
    /\ queue = <<>>
    /\ spc = "connect"
    /\ inHand = NoItem
    /\ connOK = FALSE
    /\ seed = NullCursor
    /\ workers = 1
    /\ prevDeath = "none"
    /\ written = {}
    /\ wire = <<>>
    /\ enq = <<>>
    /\ ioFault = FALSE
    /\ attempts = 0

\* a record field with some name is about to be inserted
KeyInit ==
    /\ ProducerOnly
    /\ conv \in {[stage |-> "name", name |-> n, key |-> <<>>] : n \in FieldNames}

\* main.rs:844-852: the key of the field
RenameField ==
    /\ conv.stage = "name"
    /\ conv' = [conv EXCEPT !.stage = "key", !.key = RecordKey(conv.name)]
    /\ UNCHANGED programVars

KeyNext == RenameField

KeySpec == KeyInit /\ [][KeyNext]_vars

\* a record has been read, with its cursor and timestamp string
DocumentInit ==
    /\ ProducerOnly
    /\ conv \in {[stage |-> "record", fields |-> r, cursor |-> c, timestamp |-> t,
                  sent |-> <<>>] :
                    r \in RecordsTried, c \in CursorStrings, t \in TimestampStrings}

\* main.rs:837-857: build the document and send it with the cursor
BuildDocument ==
    /\ conv.stage = "record"
    /\ conv' = [conv EXCEPT
                  !.stage = "sent",
                  !.sent = [value |-> JsonMap(conv.timestamp, conv.cursor, conv.fields),
                            cursor |-> conv.cursor]]
    /\ UNCHANGED programVars

DocumentNext == BuildDocument

DocumentSpec == DocumentInit /\ [][DocumentNext]_vars

---------------------------------------------------------------------------
(* The history seek on its own: initialize_the_environment has received    *)
(* the default cursor and enters the block of main.rs:581-704 with any of  *)
(* the settings below.                                                     *)

\* largest "history-count", "history-absolute" second and "history-duration"
\* second tried
MaxCount == 3

AllConfigs ==
    {Config("count", n, AbsoluteString(FALSE, 0), DurationString(TRUE, 0)) :
        n \in -MaxCount .. MaxCount}
    \cup {Config("absolute", 0, AbsoluteString(TRUE, t), DurationString(TRUE, 0)) :
            t \in -1 .. MaxCount}
    \cup {Config("absolute", 0, AbsoluteString(FALSE, 0), DurationString(TRUE, 0))}
    \cup {Config("duration", 0, AbsoluteString(FALSE, 0), DurationString(TRUE, t)) :
            t \in 0 .. MaxCount}
    \cup {Config("duration", 0, AbsoluteString(FALSE, 0), DurationString(FALSE, 0))}
    \cup {Config("size", 0, AbsoluteString(FALSE, 0), DurationString(TRUE, 0))}

HistoryInit ==
    /\ journalLen \in 0 .. MaxRecords
    /\ netUp = TRUE
    /\ file = FileEmpty
    /\ file0 = file
    /\ \E c \in AllConfigs : ConfigIs(c)
    /\ conv = <<>>
    /\ ppc = "history"
    /\ initCursor = NullCursor
    /\ existsChan = <<>>
    /\ historyRan = FALSE
    /\ cpc = "loop"
    /\ ckLocal = NullCursor
    /\ ckWritten = NullCursor
    /\ elapsed = FALSE
    /\ ackChan = [p \in {"parent", "child"} |-> <<>>]
    /\ wstate = "none"
    /\ wpc = "none"
    /\ wLocal = NullCursor
    /\ jpos = 0
    /\ loopCount = 0
    /\ queue = <<>>
    /\ spc = "none"
    /\ inHand = NoItem
    /\ connOK = FALSE
    /\ seed = NullCursor
    /\ workers = 0
    /\ prevDeath = "none"
    /\ written = {}
    /\ wire = <<>>
    /\ enq = <<>>
    /\ ioFault = FALSE
    /\ attempts = 0

HistoryNext == ParentHistory

HistorySpec == HistoryInit /\ [][HistoryNext]_vars

---------------------------------------------------------------------------
(* Claims *)

\* record r is held by the journal after the entry of the initial cursor, which
\* is where reading starts: the entry of a cursor counts as consumed
InScope(r) == ppc \in {"fork", "wait"} /\ initCursor < r /\ r <= journalLen

\* the environment has broken an assumption of the delivery guarantee: the
\* endpoint refused, fork failed, the worker was killed or the journal failed
Hostile ==
    \/ ~netUp
    \/ ppc = "stopped"
    \/ wstate = "signaled"
    \/ prevDeath = "fault"

\* C1: at-least-once delivery.  Under fair scheduling, with an endpoint that
\* always accepts and no fault from outside, every record the journal holds
\* from the start position on is eventually written to the stream.
C1_AtLeastOnce ==
    \A r \in 1 .. MaxRecords :
        <>Hostile \/ [](InScope(r) => <>(r \in written))


\* C2: resume across process restarts.  When the checkpoint file holds a
\* non-null cursor at process start and the checkpoint thread has started, the
\* cursor it sends and the parent receives is that cursor, the history seek
\* block is not run, and the first worker seeks to it.
C2_ResumeFromCheckpoint ==
    (YamlFromStr(file0) # NullCursor /\ cpc = "loop") =>
        /\ existsChan # <<>> => Head(existsChan) = YamlFromStr(file0)
        /\ ppc # "load" => initCursor = YamlFromStr(file0)
        /\ ~historyRan
        /\ workers = 1 => seed = YamlFromStr(file0)


\* C3: persist after delivery.  The cursor in the checkpoint file is what the
\* file held at process start, or the null cursor, or the cursor of a record
\* whose line was written Ok to the stream.
C3_PersistAfterDelivery ==
    \/ file = file0
    \/ YamlFromStr(file) = NullCursor
    \/ YamlFromStr(file) \in written

\* C3 witness: the checkpoint thread has replaced the file's content by the
\* cursor of a delivered record while a later record is only queued or read
C3_Witness ==
    /\ file # file0
    /\ YamlFromStr(file) \in written
    /\ wLocal > YamlFromStr(file)
    /\ wLocal \notin written

\* the oldest record from the start position on that was not yet written to
\* the stream (journalLen + 1 when there is none)
OldestUnwritten ==
    LET todo == {r \in initCursor + 1 .. journalLen : r \notin written} IN
    IF todo = {} THEN journalLen + 1
    ELSE CHOOSE r \in todo : \A q \in todo : r <= q

\* C4: no skip on worker restart.  A worker started after another one ended
\* seeks to a position that is not after the oldest unwritten record, and the
\* first record it reads is not after it either.
C4_NoSkipOnRestart ==
    (wstate = "running" /\ workers = 2) =>
        /\ seed <= OldestUnwritten
        /\ (wpc = "next" /\ loopCount = 0) => jpos + 1 <= OldestUnwritten

\* C4 witness: the previous worker was killed between a write and its
\* acknowledgment, and the new worker has done its seek with records unwritten
C4_Witness ==
    /\ wstate = "running"
    /\ workers = 2
    /\ prevDeath = "killed_before_ack"
    /\ wpc = "next"
    /\ loopCount = 0
    /\ written # {}
    /\ OldestUnwritten <= journalLen

\* C5: restart seed.  A worker forked after a previous worker ended seeks to
\* the cursor the checkpoint file holds at that time.
C5_RestartSeed ==
    [][(ppc = "fork" /\ workers >= 1 /\ wstate' = "running"
          /\ YamlFromStr(file) # NullCursor)
        => seed' = YamlFromStr(file)]_vars

\* s is a prefix of t
IsPrefix(s, t) == Len(s) <= Len(t) /\ \A i \in 1 .. Len(s) : s[i] = t[i]

\* C6: FIFO delivery order.  Within one worker the records written to the
\* stream are a prefix of the records the producer enqueued, in that order.
C6_FifoOrder == IsPrefix(wire, enq)

\* C6 witness: the shipper has written several documents while the queue
\* holds more than one
C6_Witness ==
    /\ wstate = "running"
    /\ Len(wire) >= 2
    /\ Len(queue) >= 2

\* C7: backpressure.  The queue never holds more than its capacity, and while
\* the shipper thread exists the producer gets past its push only by placing
\* the record it read in the queue, which then had room.
C7_Backpressure ==
    /\ [](Len(queue) <= QueueCap)
    /\ [][(wpc = "send" /\ wpc' = "next" /\ spc # "dead")
           => (Len(queue) < QueueCap /\ queue' = Append(queue, Item(jpos)))]_vars

\* C7 witness: the queue is full, the shipper is stalled in its blocked send
\* and the producer holds a record it cannot push
C7_Witness ==
    /\ wstate = "running"
    /\ Len(queue) = QueueCap
    /\ spc = "ack"
    /\ ChanFull(ackChan["child"], AckCap)
    /\ wpc = "send"

\* records the queue holds
QueuedRecs == {queue[i].rec : i \in 1 .. Len(queue)}

\* records the current worker has written Ok
WireRecs == {wire[i] : i \in 1 .. Len(wire)}

\* C8: network errors are non-fatal and lossless.  While the worker runs its
\* shipper thread exists, and every record the producer enqueued has been
\* written or is still held by the queue or by the shipper.
C8_NetworkErrorLossless ==
    wstate = "running" =>
        /\ spc # "dead"
        /\ \A i \in 1 .. Len(enq) :
              \/ enq[i] \in WireRecs
              \/ enq[i] \in QueuedRecs
              \/ (inHand # NoItem /\ inHand.rec = enq[i])

\* the pipeline is idle after deliveries, the checkpoint file having been
\* written before: everything read was written, the shipper waits for the next
\* pair and the producer for the next record
Quiet ==
    /\ wstate = "running"
    /\ ckWritten # NullCursor
    /\ wire # <<>>
    /\ wire = enq
    /\ queue = <<>>
    /\ spc = "recv"
    /\ wpc = "next"
    /\ jpos = journalLen

\* the checkpoint file holds the cursor of the last delivery
Flushed == wire # <<>> /\ YamlFromStr(file) = wire[Len(wire)]

\* C9: the checkpoint catches up.  Unless a file operation fails, when the
\* pipeline stays idle after its last delivery (the file having been written
\* for an earlier one) the checkpoint file comes to hold the cursor of that
\* last delivery.
C9_CheckpointCatchesUp == <>ioFault \/ []<>(~Quiet \/ Flushed)

\* C10: supervisor restart.  Whenever the worker process has terminated, by
\* exit with any code or by a signal, a new worker is eventually running,
\* unless fork itself fails.
C10_SupervisorRestarts ==
    (wstate \in {"exited", "signaled"}) ~> (wstate = "running" \/ ppc = "stopped")

\* C10 witness: a worker killed by a signal has been replaced
C10_Witness ==
    /\ prevDeath \in {"killed", "killed_before_ack"}
    /\ workers = 2
    /\ wstate = "running"

\* the field name with '_' replaced by '.', lowercased, leading '.' stripped
Dotted(name) == TrimLeftMatchesDot(ToLowercase(ReplaceUnderscore(name)))

\* the key as the literal reading has it: "source" renamed only when it is the
\* whole key, "message." only as prefix
LiteralKey(name) ==
    LET n == Dotted(name) IN
    IF n = <<"source">> THEN <<"originator">>
    ELSE IF Len(n) >= 2 /\ n[1] = "message" /\ n[2] = "."
         THEN <<"originator", ".">> \o SubSeq(n, 3, Len(n))
         ELSE n

\* C11 as stated: the key of a field is its dotted name, renamed only when it
\* is exactly "source" or starts with "message.".
C11_RenameLiteral == conv.stage = "key" => conv.key = LiteralKey(conv.name)

\* C11: field renaming.  The key of a field is its name with '_' replaced by
\* '.', lowercased and with the leading dots stripped, in which every
\* occurrence of "source" is replaced by "originator" and every occurrence of
\* "message." by "originator.", wherever in the key it stands.
C11_RenameEverywhere ==
    conv.stage = "key" =>
        LET n == Dotted(conv.name) IN
        /\ Len(conv.key) = Len(n)
        /\ \A i \in 1 .. Len(n) :
              conv.key[i] =
                 IF n[i] = "source" THEN "originator"
                 ELSE IF n[i] = "message" /\ i < Len(n) /\ n[i + 1] = "."
                      THEN "originator"
                      ELSE n[i]
        /\ (conv.name = <<"_", "PID">>) => conv.key = <<"pid">>
        /\ (conv.name = <<"message", ".", "foo">>)
              => conv.key = <<"originator", ".", "foo">>

\* C11 witness: a name that holds "source" after other pieces was converted
C11_Witness ==
    /\ conv.stage = "key"
    /\ conv.name = <<"PID", "_", "SOURCE">>
    /\ conv.key = <<"pid", ".", "originator">>

\* C12 as stated: every document sent holds "@timestamp", "source.timestamp"
\* and "source.cursor", the second equal to the first and the third equal to
\* the cursor sent with the document.
C12_SourceKeys ==
    conv.stage = "sent" =>
        LET doc == conv.sent.value IN
        /\ {AtTimestampKey, <<"source", ".", "timestamp">>,
            <<"source", ".", "cursor">>} \subseteq DOMAIN doc
        /\ doc[<<"source", ".", "timestamp">>] = doc[AtTimestampKey]
        /\ doc[<<"source", ".", "cursor">>] = conv.sent.cursor

\* keys of the record's fields
FieldKeys(rec) == {RecordKey(FieldsTried[i]) : i \in DOMAIN rec}

\* C12: delivery metadata.  Every document sent holds the keys "@timestamp",
\* "journald.timestamp" and "journald.cursor"; "journald.timestamp" equals
\* "@timestamp" and "journald.cursor" equals the cursor sent with the
\* document, unless the record has a field whose key is that very key, whose
\* value then stands in its place.
C12_JournaldKeys ==
    conv.stage = "sent" =>
        LET doc == conv.sent.value IN
        /\ {<<"@timestamp">>, <<"journald", ".", "timestamp">>,
            <<"journald", ".", "cursor">>} \subseteq DOMAIN doc
        /\ doc[<<"@timestamp">>] = conv.timestamp
        /\ <<"journald", ".", "timestamp">> \notin FieldKeys(conv.fields)
              => doc[<<"journald", ".", "timestamp">>] = doc[<<"@timestamp">>]
        /\ <<"journald", ".", "cursor">> \notin FieldKeys(conv.fields)
              => doc[<<"journald", ".", "cursor">>] = conv.sent.cursor
        /\ conv.sent.cursor = conv.cursor

\* C12 witness: a document with record fields was sent
C12_Witness ==
    /\ conv.stage = "sent"
    /\ Cardinality(DOMAIN conv.fields) = MaxFields
    /\ <<"pid">> \in DOMAIN conv.sent.value
    /\ conv.sent.value[<<"journald", ".", "cursor">>] = conv.sent.cursor

\* the smaller of two numbers
Min(a, b) == IF a <= b THEN a ELSE b

\* C13: history seek Count(n), n > 0.  On a journal of m records the start
\* cursor resolved is that of the min(n, m)-th oldest record.
C13_CountForward ==
    (ppc = "fork" /\ histType = "count" /\ histCount > 0) =>
        initCursor = Min(histCount, journalLen)

\* C14: history seek Count(n), n < 0.  On a journal that holds records the
\* seek ends without error at the record |n| before the newest one, or at the
\* oldest record when fewer than |n| records precede the newest.
C14_CountBackward ==
    (histType = "count" /\ histCount < 0 /\ journalLen >= 1 /\ ppc # "history") =>
        /\ ppc = "fork"
        /\ initCursor = (IF journalLen + histCount >= 1
                         THEN journalLen + histCount ELSE 1)

\* C14 witness: Count(-2) has resolved to the record two before the newest
C14_Witness ==
    /\ ppc = "fork"
    /\ histType = "count"
    /\ histCount = -2
    /\ journalLen = 5
    /\ initCursor = 3

\* C15: an unparsable "history-absolute" is fatal.  With history type absolute
\* and a value that is not an RFC 3339 timestamp, once the history block has
\* run the startup has failed, for good, and no worker was or is started.
C15_InvalidSeekTargetFatal ==
    (histType = "absolute" /\ ~histAbsolute.rfc3339 /\ ppc \notin {"load", "history"}) =>
        /\ ppc = "failed"
        /\ cpc = "dead"
        /\ workers = 0
        /\ wstate = "none"

\* C15 witness: the startup has failed on the unparsable value
C15_Witness ==
    /\ histType = "absolute"
    /\ ~histAbsolute.rfc3339
    /\ historyRan
    /\ ppc = "failed"

\* C16: load never fails the caller.  When the checkpoint file is absent,
\* empty or unparsable, or the checkpoint thread has died opening or reading
\* it, the startup waiting for the loaded cursor gets the null cursor and
\* enters the history seek.
C16_LoadNeverFails ==
    (ppc = "load" /\ (YamlFromStr(file0) = NullCursor \/ cpc = "dead"))
        ~> (ppc = "history" /\ initCursor = NullCursor)

\* C16 witness: the checkpoint thread died before sending, and the startup
\* has gone on to the history seek
C16_Witness ==
    /\ ppc = "history"
    /\ cpc = "dead"
    /\ existsChan = <<>>
    /\ initCursor = NullCursor

\* C17: graceful shutdown.  After a shutdown signal the checkpoint file holds
\* the cursor of the last acknowledgment the checkpoint thread received.
C17_FinalFlush ==
    (prevDeath = "shutdown" /\ ckLocal # NullCursor) => YamlFromStr(file) = ckLocal

\* cursors the worker's image of the acknowledgment channel holds
AcksInFlight == {ackChan["child"][i] : i \in 1 .. Len(ackChan["child"])}

\* C18: acknowledgments reach the checkpoint task.  With no fault from outside
\* and the checkpoint thread alive, every cursor the shipper of the forked worker has sent on the
\* acknowledgment channel is eventually received by the checkpoint thread.
C18_AcksReachCheckpoint ==
    \A c \in 1 .. MaxRecords :
        <>(Hostile \/ cpc = "dead") \/ ((c \in AcksInFlight) ~> (ckLocal = c))

C20_Debounce ==
    [][(file' # file \/ ckWritten' # ckWritten)
        => /\ elapsed
           /\ ~elapsed'
           /\ ckLocal' # ckWritten
           /\ ckWritten' = ckLocal']_vars

\* C20 witness: a write was done and the next acknowledgment has arrived
\* before the interval has passed again
C20_Witness ==
    /\ file = YamlToWriter(ckWritten)
    /\ ckWritten # NullCursor
    /\ ~elapsed
    /\ ckLocal > ckWritten

\* C21: checkpoint save failures are non-fatal and retried.  The step in which
\* a file operation of a save fails for the first time leaves the checkpoint
\* thread in its loop and does not record the cursor as written, so that the
\* same cursor passes the condition of the next save.
C21_SaveFailureRetried ==
    [][(~ioFault /\ ioFault') => (cpc' = "loop" /\ ckWritten' = ckWritten)]_vars

\* C22: worker faults are contained by restart.  Once the shipper thread has
\* died the worker, as long as it exists, reads no further record and
\* discards none: its producer takes no step.
C22_FaultEndsWorker ==
    [][(wstate = "running" /\ spc = "dead" /\ wstate' = "running")
        => UNCHANGED <<wpc, jpos, loopCount, enq>>]_vars

\* C23: terminal state.  The supervisor leaves the restart loop only where
\* fork fails or, before the first worker, where the startup fails; no step
\* taken while it waits for the worker, whatever waitpid returns, ends it.
C23_StopsOnlyOnForkFailure ==
    [][(ppc' \in {"stopped", "failed"} /\ ppc' # ppc)
        => \/ (ppc = "fork" /\ ppc' = "stopped")
           \/ (ppc = "history" /\ ppc' = "failed" /\ workers = 0)]_vars

\* C23 witness: two workers were started, the second died by a fault and was
\* waited for, and the supervisor stopped on the failing fork that followed
C23_Witness ==
    /\ ppc = "stopped"
    /\ workers = 2
    /\ wstate = "none"
    /\ prevDeath = "fault"

\* C25: history seek resolution runs at most once per process, before the
\* first worker is started and only when the loaded cursor is the null
\* cursor; no restart of a worker leads back to it.
C25_HistoryOnce ==
    [][/\ (ppc' = "history" /\ ppc # "history")
            => (ppc = "load" /\ workers = 0 /\ ~historyRan
                /\ initCursor' = NullCursor)
       /\ (ppc = "history" /\ ppc' # "history")
            => (historyRan' /\ ~historyRan /\ workers = 0
                /\ initCursor = NullCursor)
       /\ (historyRan' # historyRan) => ppc = "history"]_vars

\* C25 witness: the history seek ran, the first worker exited after its
\* iterations and its replacement runs
C25_Witness ==
    /\ historyRan
    /\ workers = 2
    /\ prevDeath = "exit"
    /\ wstate = "running"
    /\ ppc = "wait"

\* C26: single worker.  Whenever the supervisor is about to fork, no worker
\* process exists: the previous one has terminated and has been waited for,
\* whether waitpid returned a normal exit, another status or an error.
C26_SingleWorker == ppc = "fork" => (wstate = "none" /\ spc = "none" /\ wpc = "none")

\* C26 witness: the worker was killed by a signal, waitpid reported that
\* status and then an error, and the supervisor is about to fork
C26_Witness ==
    /\ ppc = "fork"
    /\ workers >= 1
    /\ wstate = "none"
    /\ prevDeath = "killed"

\* a step in which the shipper tries to connect: it fails and is counted, or
\* it succeeds
ConnectAttempt ==
    /\ wstate = "running"
    /\ spc = "connect"
    /\ (attempts' > attempts \/ spc' = "recv")

\* C24: connect backoff.  The shipper tries to connect only when no failed
\* attempt stands behind it without a wait, and while it is not connected it
\* takes nothing from the queue.
C24_ConnectBackoff ==
    [][/\ ConnectAttempt => attempts = 0
       /\ (spc = "connect" /\ spc' = "connect") => Len(queue') >= Len(queue)]_vars

\* record r was read and enqueued by the worker that has just exited after
\* its iterations, and no worker has written it
LostAtExit(r) ==
    /\ wstate = "exited"
    /\ prevDeath = "exit"
    /\ \E i \in 1 .. Len(enq) : enq[i] = r
    /\ r \notin written

\* something from outside stops the replacement: fork fails or a worker is
\* killed or faults
Stopped == ppc = "stopped" \/ prevDeath \in {"fault", "killed", "killed_before_ack"}

\* C27: bounded worker lifetime.  A worker enqueues at most LoopLimit records;
\* unless the network keeps failing or the replacement is stopped from
\* outside, every record a worker had read and not delivered when it exited
\* after its iterations is eventually written by a later worker.
C27_ExitLosesNothing ==
    /\ [](loopCount <= LoopLimit /\ Len(enq) <= LoopLimit)
    /\ \A r \in 1 .. MaxRecords :
          \/ []<>~netUp
          \/ <>Stopped
          \/ [](LostAtExit(r) => <>(r \in written))

===========================================================================
